---- MODULE Spec2Model ----
(***************************************************************************)
(* Model of hmm_kunitz.py: the pipeline main() drives (select, align,      *)
(* convert, build, validation sets, search, parse, evaluate, plot) and the *)
(* pure functions it is made of (parse_tblout, create_validation_sets,     *)
(* evaluate with the scikit-learn metric calls it makes).                  *)
(*                                                                         *)
(* Text is modelled at the granularity the code reads it: a description is *)
(* a sequence of words, a table line is a sequence of whitespace-separated *)
(* fields, a field is a sequence of characters.  Floats are exact: a float *)
(* is NaN or an integer value; a metric is NaN or a fraction num/den.      *)
(***************************************************************************)
EXTENDS Integers, Sequences, FiniteSets, TLC

VARIABLES
    pc,          \* position of the run (stage about to execute, or how it ended)
    args,        \* parsed command line: swissprot path content is in fs; evalue, n_neg
    dirs,        \* directories that exist
    fs,          \* path -> content ([kind, data]); kind "none" = no such file
    io,          \* history: file accesses and completed stages, in order
    invoked,     \* history: external tools started through run_command, in order
    log,         \* logger.error messages, in order
    exc,         \* the uncaught exception that ended the run, or "none"
    exit_status, \* process exit status; -1 while running
    positives,   \* create_validation_sets: list of record objects
    others,      \* create_validation_sets: list of record objects
    negatives,   \* create_validation_sets: the sample
    hits,        \* parse_tblout's result
    pos_ids,     \* evaluate: set of ids
    neg_ids,     \* evaluate: set of ids
    order,       \* evaluate: the order both comprehensions iterate pos_ids, neg_ids in
    y_true,      \* evaluate: ground-truth labels
    y_pred,      \* evaluate: predicted labels
    metrics      \* evaluate: [prec, rec, f1, acc], or <<>> before it is computed

vars == <<pc, args, dirs, fs, io, invoked, log, exc, exit_status, positives,
          others, negatives, hits, pos_ids, neg_ids, order, y_true, y_pred, metrics>>

----------------------------------------------------------------------------
(* Bounds *)

\* longest input FASTA file, in records
MaxRecs == 3
\* largest --n_neg
MaxNeg == 2
\* longest hits table given to parse_tblout alone, in lines
MaxLines == 2
\* longest positives / negatives FASTA file given to evaluate alone, in records
MaxEvalRecs == 2
\* most positive / negative identifiers in the label-vector specification
MaxLabels == 5

----------------------------------------------------------------------------
(* Sequences *)

Range(s) == {s[i] : i \in DOMAIN s}

SeqsUpTo(S, n) == UNION {[1..k -> S] : k \in 0..n}

\* the orders a set can be iterated in: the injective sequences covering it
Perms(S) == {p \in [1..Cardinality(S) -> S] : Range(p) = S}

\* the ways to draw k distinct positions out of 1..n, in drawing order
Draws(n, k) == {p \in [1..k -> 1..n] : \A i, j \in 1..k : i # j => p[i] # p[j]}

Min(a, b) == IF a < b THEN a ELSE b

----------------------------------------------------------------------------
(* Text: descriptions, identifiers, table fields, floats *)

\* str.lower() on the words a description is made of
Lower(w) ==
    CASE w = "Kunitz" -> "kunitz"
      [] w = "KUNITZ" -> "kunitz"
      [] w = "Homo sapiens" -> "homo sapiens"
      [] w = "HOMO SAPIENS" -> "homo sapiens"
      [] w = "Bos taurus" -> "bos taurus"
      [] w = "Trypsin" -> "trypsin"
      [] OTHER -> w

\* kw in desc.lower()
InLower(kw, desc) == \E i \in DOMAIN desc : Lower(desc[i]) = kw

\* the records input files are made of: [id, desc]
HumanKunitz == [id |-> <<"h", "1">>, desc |-> <<"Kunitz", "Homo sapiens">>]
HumanKunitz2 == [id |-> <<"h", "2">>, desc |-> <<"HOMO SAPIENS", "kunitz">>]
BovineKunitz == [id |-> <<"p", "1">>, desc |-> <<"KUNITZ", "Bos taurus">>]
BovineTrypsin == [id |-> <<"o", "1">>, desc |-> <<"Trypsin", "Bos taurus">>]
HumanTrypsin == [id |-> <<"o", "2">>, desc |-> <<"Trypsin", "homo sapiens">>]

RecordSet == {HumanKunitz, HumanKunitz2, BovineKunitz, BovineTrypsin, HumanTrypsin}

\* SeqIO.parse: one record object per entry; obj is the object's identity
\* (two entries with the same text are two objects)
SeqIOParse(data) == [i \in DOMAIN data |-> [id |-> data[i].id, desc |-> data[i].desc, obj |-> i]]

\* SeqIO.write: the text of the records, in list order
SeqIOWrite(recs) == [i \in DOMAIN recs |-> [id |-> recs[i].id, desc |-> recs[i].desc]]

DigitChars == <<"0", "1", "2", "3", "4", "5", "6", "7", "8", "9">>

IsDigit(c) == \E i \in DOMAIN DigitChars : DigitChars[i] = c

DigitVal(c) == (CHOOSE i \in DOMAIN DigitChars : DigitChars[i] = c) - 1

RECURSIVE DecimalVal(_)
\* the value of a non-empty string of digits
DecimalVal(t) ==
    IF Len(t) = 1 THEN DigitVal(t[1])
    ELSE 10 * DecimalVal(SubSeq(t, 1, Len(t) - 1)) + DigitVal(t[Len(t)])

\* a float: NaN, or the (integer) value val
NaN == [nan |-> TRUE, val |-> 0]

Num(n) == [nan |-> FALSE, val |-> n]

AllDigits(t) == t # <<>> /\ \A i \in DOMAIN t : IsDigit(t[i])

\* float(tok) for the literals of the model's alphabet: [sign] digits and [sign] "nan"
\* are floats; anything else raises ValueError (err)
ParseFloat(tok) ==
    LET signed == tok[1] \in {"-", "+"}
        body == IF signed THEN Tail(tok) ELSE tok
    IN  IF body = <<"n", "a", "n">>
        THEN [err |-> FALSE, nan |-> TRUE, val |-> 0]
        ELSE IF AllDigits(body)
        THEN [err |-> FALSE, nan |-> FALSE,
              val |-> IF tok[1] = "-" THEN 0 - DecimalVal(body) ELSE DecimalVal(body)]
        ELSE [err |-> TRUE, nan |-> FALSE, val |-> 0]

\* a <= b on floats: False whenever either side is NaN
FloatLe(a, b) == ~a.nan /\ ~b.nan /\ a.val <= b.val

\* a table line: its fields (line.strip().split()) and whether whitespace leads it
Line(lead, fields) == [lead |-> lead, fields |-> fields]

\* line.startswith("#")
StartsWithHash(line) ==
    ~line.lead /\ line.fields # <<>> /\ line.fields[1][1] = "#"

----------------------------------------------------------------------------
(* parse_tblout *)

\* ParseLine with "evalue < evalue_cutoff": the boundary is lost
ParseLineStrict(h, line, evalue_cutoff) ==
    IF StartsWithHash(line) THEN h
    ELSE LET parts == line.fields
         IN  IF Len(parts) > 4
             THEN LET evalue == ParseFloat(parts[5])
                  IN  IF evalue.err THEN h
                      ELSE IF FloatLe(evalue, evalue_cutoff) /\ evalue.val # evalue_cutoff.val
                      THEN h \cup {parts[1]}
                      ELSE h
             ELSE h

\* ParseLine with the comparison turned round: "evalue >= evalue_cutoff"
ParseLineGe(h, line, evalue_cutoff) ==
    IF StartsWithHash(line) THEN h
    ELSE LET parts == line.fields
         IN  IF Len(parts) > 4
             THEN LET evalue == ParseFloat(parts[5])
                  IN  IF evalue.err THEN h
                      ELSE IF FloatLe(evalue_cutoff, evalue) THEN h \cup {parts[1]}
                      ELSE h
             ELSE h

\* one iteration of the loop over the lines of the table
ParseLine(h, line, evalue_cutoff) ==
    IF StartsWithHash(line) THEN h
    ELSE LET parts == line.fields
         IN  IF Len(parts) > 4
             THEN LET evalue == ParseFloat(parts[5])
                  IN  IF evalue.err THEN h
                      ELSE IF FloatLe(evalue, evalue_cutoff) THEN h \cup {parts[1]}
                      ELSE h
             ELSE h

RECURSIVE ParseLines(_, _, _)
ParseLines(h, lines, evalue_cutoff) ==
    IF lines = <<>> THEN h
    ELSE ParseLines(ParseLine(h, Head(lines), evalue_cutoff), Tail(lines), evalue_cutoff)

ParseTblout(lines, evalue_cutoff) == ParseLines({}, lines, evalue_cutoff)

----------------------------------------------------------------------------
(* select_human_kunitz, create_validation_sets *)

\* IsHumanKunitz with "or" for "and"
IsHumanKunitzOr(r) == InLower("kunitz", r.desc) \/ InLower("homo sapiens", r.desc)

IsHumanKunitz(r) == InLower("kunitz", r.desc) /\ InLower("homo sapiens", r.desc)

IsPositive(r) == InLower("kunitz", r.desc) /\ ~InLower("homo sapiens", r.desc)

\* the elif branch: reached when the record is no positive
IsOther(r) == ~IsPositive(r) /\ ~InLower("kunitz", r.desc)

\* SampleSize without the min: n_negatives whatever the pool holds
SampleSizeNoMin(n_negatives, pool) == n_negatives

\* how many records random.sample is asked for
SampleSize(n_negatives, pool) == Min(n_negatives, Len(pool))

\* random.sample(pool, k): what an RNG can return, k distinct positions in drawing order
RandomSample(pool, k) == {[i \in 1..k |-> pool[d[i]]] : d \in Draws(Len(pool), k)}

----------------------------------------------------------------------------
(* evaluate: label vectors and the sklearn.metrics calls *)

\* YTrue with the two blocks the other way round: [0] * len(neg_ids) + [1] * len(pos_ids)
YTrueNegativesFirst(np, nn) == [i \in 1..(np + nn) |-> IF i <= nn THEN 0 ELSE 1]

YTrue(np, nn) == [i \in 1..(np + nn) |-> IF i <= np THEN 1 ELSE 0]

\* YPred with the two comprehensions the other way round
YPredNegativesFirst(op, on, h) ==
    [i \in 1..(Len(op) + Len(on)) |-> IF (on \o op)[i] \in h THEN 1 ELSE 0]

\* the two comprehensions, iterating pos_ids in order op and neg_ids in order on
YPred(op, on, h) ==
    [i \in 1..(Len(op) + Len(on)) |-> IF (op \o on)[i] \in h THEN 1 ELSE 0]

\* a metric: NaN, or the fraction num/den
Frac(n, d) == [nan |-> FALSE, num |-> n, den |-> d]

NaNMetric == [nan |-> TRUE, num |-> 0, den |-> 1]

Count(yt, yp, t, p) == Cardinality({i \in DOMAIN yt : yt[i] = t /\ yp[i] = p})

\* PrfDivide under zero_division=1
PrfDivideOne(n, d) == IF d = 0 THEN Frac(1, 1) ELSE Frac(n, d)

\* sklearn's _prf_divide with zero_division="warn": 0.0 where the denominator is 0
PrfDivide(n, d) == IF d = 0 THEN Frac(0, 1) ELSE Frac(n, d)

\* PrecisionScore dividing by the actual positives (recall's denominator)
PrecisionScoreOverTrue(yt, yp) ==
    PrfDivide(Count(yt, yp, 1, 1), Count(yt, yp, 1, 1) + Count(yt, yp, 1, 0))

PrecisionScore(yt, yp) == PrfDivide(Count(yt, yp, 1, 1), Count(yt, yp, 1, 1) + Count(yt, yp, 0, 1))

RecallScore(yt, yp) == PrfDivide(Count(yt, yp, 1, 1), Count(yt, yp, 1, 1) + Count(yt, yp, 1, 0))

\* 2pr/(p+r) on p = a/b, r = c/d is 2ac/(ad+cb); 0.0 where p+r is 0
F1Score(yt, yp) ==
    LET p == PrecisionScore(yt, yp)
        r == RecallScore(yt, yp)
    IN  PrfDivide(2 * p.num * r.num, p.num * r.den + r.num * p.den)

\* the mean of (y_true == y_pred); the mean of no values is NaN
AccuracyScore(yt, yp) ==
    IF Len(yt) = 0 THEN NaNMetric
    ELSE Frac(Count(yt, yp, 1, 1) + Count(yt, yp, 0, 0), Len(yt))

Scores(yt, yp) ==
    [prec |-> PrecisionScore(yt, yp), rec |-> RecallScore(yt, yp),
     f1 |-> F1Score(yt, yp), acc |-> AccuracyScore(yt, yp)]

----------------------------------------------------------------------------
(* The file system main() works in *)

SWISSPROT == "uniprot_sprot.fasta"
TRAIN_FA == "outdir/train/training_human_kunitz.fasta"
CLUSTAL == "outdir/train/training.aln"
STO == "outdir/train/training.sto"
HMM == "outdir/train/kunitz.hmm"
TBL == "outdir/validation/hits.tbl"
POS_FA == "outdir/validation/positives.fasta"
NEG_FA == "outdir/validation/negatives.fasta"
TEST_FA == "outdir/validation/test_set.fasta"
PLOT == "outdir/metrics/performance_metrics.png"

Paths == {SWISSPROT, TRAIN_FA, CLUSTAL, STO, HMM, TBL, POS_FA, NEG_FA, TEST_FA, PLOT}

\* os.path.dirname
DirOf(path) ==
    CASE path \in {TRAIN_FA, CLUSTAL, STO, HMM} -> "outdir/train"
      [] path \in {TBL, POS_FA, NEG_FA, TEST_FA} -> "outdir/validation"
      [] path = PLOT -> "outdir/metrics"
      [] OTHER -> "."

NoFile == [kind |-> "none", data |-> <<>>]

File(kind, data) == [kind |-> kind, data |-> data]

Exists(path) == fs[path].kind # "none"

\* entries of the history io
ReadEv(stage, path) == [stage |-> stage, op |-> "read", path |-> path, ok |-> Exists(path)]

WriteEv(stage, path, d) == [stage |-> stage, op |-> "write", path |-> path, ok |-> DirOf(path) \in d]

DoneEv(stage) == [stage |-> stage, op |-> "done", path |-> "", ok |-> TRUE]

FailedEv(stage) == [stage |-> stage, op |-> "failed", path |-> "", ok |-> TRUE]

\* os.makedirs(args.outdir), os.makedirs(outdir/train), exist_ok=True
MainDirs(d) == d \cup {"outdir", "outdir/train"}

\* ValidationDirs without the makedirs call
ValidationDirsNotMade(d) == d

\* os.makedirs(val_dir, exist_ok=True): the directory and its parents
ValidationDirs(d) == d \cup {"outdir", "outdir/validation"}

\* os.makedirs(os.path.dirname(plot_path), exist_ok=True)
MetricsDirs(d) == d \cup {"outdir", "outdir/metrics"}

\* the statement order of main(): the stage that follows a completed stage
StageAfter(stage) ==
    CASE stage = "start" -> "select"
      [] stage = "select" -> "align"
      [] stage = "align" -> "convert"
      [] stage = "convert" -> "build"
      [] stage = "build" -> "validation"
      [] stage = "validation" -> "search"
      [] stage = "search" -> "parse"
      [] stage = "parse" -> "evaluate"
      [] stage = "evaluate" -> "plot"
      [] stage = "plot" -> "done"

\* OnCalledProcessError without sys.exit(1): the error is logged and main goes on
OnCalledProcessErrorContinue(stage) == [pc |-> StageAfter(stage), exit_status |-> -1]

\* run_command's except branch: logger.error, then sys.exit(1)
OnCalledProcessError(stage) == [pc |-> "exit1", exit_status |-> 1]

\* what hmmsearch --tblout can write for a test set: a comment line, then at most one
\* line per target, its E-value in column 5
EvalueFields == {<<"1">>}

TargetLine(id, ev) == Line(FALSE, <<id, <<"-">>, <<"q">>, <<"-">>, ev, <<"9">>>>)

CommentLine == Line(FALSE, <<<<"#">>, <<"t">>>>)

RECURSIVE TableOf(_, _, _)
TableOf(test, f, i) ==
    IF i > Len(test) THEN <<>>
    ELSE (IF f[i] = <<"x">> THEN <<>> ELSE <<TargetLine(test[i].id, f[i])>>)
         \o TableOf(test, f, i + 1)

\* hmmsearch rejects an empty sequence file, so an empty test set has no table
HmmsearchTables(test) ==
    IF test = <<>> THEN {}
    ELSE {File("tbl", <<CommentLine>> \o TableOf(test, f, 1)) :
            f \in [DOMAIN test -> EvalueFields \cup {<<"x">>}]}

----------------------------------------------------------------------------
(* main() *)

dataVars == <<positives, others, negatives, hits, pos_ids, neg_ids, order, y_true, y_pred, metrics>>

\* an exception nothing catches: traceback, exit status 1
Raise(e, events) ==
    /\ pc' = "raised"
    /\ exc' = e
    /\ exit_status' = 1
    /\ io' = io \o events

\* the stage ran to its end
Finish(stage, events) ==
    /\ pc' = StageAfter(stage)
    /\ io' = io \o events \o <<DoneEv(stage)>>
    /\ UNCHANGED <<exc, exit_status>>

MainSetup ==
    /\ pc = "start"
    /\ dirs' = MainDirs(dirs)
    /\ Finish("start", <<>>)
    /\ UNCHANGED <<args, fs, invoked, log, dataVars>>

SelectHumanKunitz ==
    /\ pc = "select"
    /\ LET rd == ReadEv("select", SWISSPROT)
           human_kunitz == SelectSeq(SeqIOParse(fs[SWISSPROT].data), IsHumanKunitz)
           wr == WriteEv("select", TRAIN_FA, dirs)
       IN  IF ~rd.ok THEN Raise("FileNotFoundError", <<rd>>) /\ fs' = fs
           ELSE IF human_kunitz = <<>> THEN Raise("RuntimeError", <<rd>>) /\ fs' = fs
           ELSE IF ~wr.ok THEN Raise("FileNotFoundError", <<rd, wr>>) /\ fs' = fs
           ELSE /\ fs' = [fs EXCEPT ![TRAIN_FA] = File("fasta", SeqIOWrite(human_kunitz))]
                /\ Finish("select", <<rd, wr>>)
    /\ UNCHANGED <<args, dirs, invoked, log, dataVars>>

\* run_command(command, description) for a tool reading inputs and writing out, one
\* of contents when it succeeds
RunCommand(stage, tool, description, inputs, out, contents) ==
    LET rds == [i \in DOMAIN inputs |-> ReadEv(stage, inputs[i])]
        wr == WriteEv(stage, out, dirs)
    IN  \/ \* the executable is not found: subprocess.run raises FileNotFoundError
           /\ Raise("FileNotFoundError", <<>>)
           /\ UNCHANGED <<fs, invoked, log>>
        \/ \* non-zero exit status: CalledProcessError
           /\ invoked' = Append(invoked, tool)
           /\ log' = Append(log, description)
           /\ pc' = OnCalledProcessError(stage).pc
           /\ exit_status' = OnCalledProcessError(stage).exit_status
           /\ io' = Append(io, FailedEv(stage))
           /\ UNCHANGED <<fs, exc>>
        \/ \* exit status 0: the tool read its inputs and wrote its output
           /\ \A i \in DOMAIN rds : rds[i].ok
           /\ wr.ok
           /\ \E content \in contents : fs' = [fs EXCEPT ![out] = content]
           /\ invoked' = Append(invoked, tool)
           /\ Finish(stage, rds \o <<wr>>)
           /\ UNCHANGED log

BuildMsa ==
    /\ pc = "align"
    /\ RunCommand("align", "clustalo", "Clustal Omega alignment", <<TRAIN_FA>>, CLUSTAL,
                  {File("clustal", fs[TRAIN_FA].data)})
    /\ UNCHANGED <<args, dirs, dataVars>>

ConvertToStockholm ==
    /\ pc = "convert"
    /\ LET rd == ReadEv("convert", CLUSTAL)
           wr == WriteEv("convert", STO, dirs)
       IN  IF ~rd.ok THEN Raise("FileNotFoundError", <<rd>>) /\ fs' = fs
           ELSE IF ~wr.ok THEN Raise("FileNotFoundError", <<rd, wr>>) /\ fs' = fs
           ELSE /\ fs' = [fs EXCEPT ![STO] = File("stockholm", fs[CLUSTAL].data)]
                /\ Finish("convert", <<rd, wr>>)
    /\ UNCHANGED <<args, dirs, invoked, log, dataVars>>

BuildHmm ==
    /\ pc = "build"
    /\ RunCommand("build", "hmmbuild", "HMM building", <<STO>>, HMM,
                  {File("hmm", fs[STO].data)})
    /\ UNCHANGED <<args, dirs, dataVars>>

CreateValidationSets ==
    /\ pc = "validation"
    /\ LET rd == ReadEv("validation", SWISSPROT)
           recs == SeqIOParse(fs[SWISSPROT].data)
           pos == SelectSeq(recs, IsPositive)
           oth == SelectSeq(recs, IsOther)
           k == SampleSize(args.n_neg, oth)
           d == ValidationDirs(dirs)
           wrs == <<WriteEv("validation", POS_FA, d), WriteEv("validation", NEG_FA, d),
                    WriteEv("validation", TEST_FA, d)>>
       IN  IF ~rd.ok
           THEN /\ Raise("FileNotFoundError", <<rd>>)
                /\ UNCHANGED <<fs, dirs, positives, others, negatives>>
           ELSE IF k < 0 \/ k > Len(oth)
           THEN \* random.sample: "Sample larger than population or is negative"
                /\ Raise("ValueError", <<rd>>)
                /\ positives' = pos
                /\ others' = oth
                /\ UNCHANGED <<fs, dirs, negatives>>
           ELSE \E neg \in RandomSample(oth, k) :
                /\ positives' = pos
                /\ others' = oth
                /\ negatives' = neg
                /\ dirs' = d
                /\ IF \E i \in DOMAIN wrs : ~wrs[i].ok
                   THEN Raise("FileNotFoundError", <<rd, wrs[1]>>) /\ fs' = fs
                   ELSE /\ fs' = [fs EXCEPT ![POS_FA] = File("fasta", SeqIOWrite(pos)),
                                            ![NEG_FA] = File("fasta", SeqIOWrite(neg)),
                                            ![TEST_FA] = File("fasta", SeqIOWrite(pos \o neg))]
                        /\ Finish("validation", <<rd>> \o wrs)
    /\ UNCHANGED <<args, invoked, log, hits, pos_ids, neg_ids, order, y_true, y_pred, metrics>>

RunHmmsearch ==
    /\ pc = "search"
    /\ RunCommand("search", "hmmsearch", "hmmsearch", <<HMM, TEST_FA>>, TBL,
                  HmmsearchTables(fs[TEST_FA].data))
    /\ UNCHANGED <<args, dirs, dataVars>>

\* hits = parse_tblout(tblout_file, args.evalue)
ParseStage ==
    /\ pc = "parse"
    /\ LET rd == ReadEv("parse", TBL)
       IN  IF ~rd.ok THEN Raise("FileNotFoundError", <<rd>>) /\ hits' = hits
           ELSE /\ hits' = ParseTblout(fs[TBL].data, args.evalue)
                /\ Finish("parse", <<rd>>)
    /\ UNCHANGED <<args, dirs, fs, invoked, log, positives, others, negatives,
                   pos_ids, neg_ids, order, y_true, y_pred, metrics>>

\* evaluate, up to y_pred: the id sets and the label vectors
EvaluateLabels ==
    /\ pc = "evaluate"
    /\ LET rds == <<ReadEv("evaluate", POS_FA), ReadEv("evaluate", NEG_FA)>>
           p == {r.id : r \in Range(SeqIOParse(fs[POS_FA].data))}
           n == {r.id : r \in Range(SeqIOParse(fs[NEG_FA].data))}
       IN  IF \E i \in DOMAIN rds : ~rds[i].ok
           THEN /\ Raise("FileNotFoundError", <<rds[1]>>)
                /\ UNCHANGED <<pos_ids, neg_ids, order, y_true, y_pred>>
           ELSE /\ pos_ids' = p
                /\ neg_ids' = n
                /\ \E op \in Perms(p), on \in Perms(n) :
                     /\ order' = [pos |-> op, neg |-> on]
                     /\ y_true' = YTrue(Cardinality(p), Cardinality(n))
                     /\ y_pred' = YPred(op, on, hits)
                /\ pc' = "metrics"
                /\ io' = io \o rds
                /\ UNCHANGED <<exc, exit_status>>
    /\ UNCHANGED <<args, dirs, fs, invoked, log, positives, others, negatives, hits, metrics>>

\* evaluate, the sklearn.metrics calls
EvaluateMetrics ==
    /\ pc = "metrics"
    /\ metrics' = Scores(y_true, y_pred)
    /\ Finish("evaluate", <<>>)
    /\ UNCHANGED <<args, dirs, fs, invoked, log, positives, others, negatives, hits,
                   pos_ids, neg_ids, order, y_true, y_pred>>

\* plot_metrics, then main returns
PlotMetrics ==
    /\ pc = "plot"
    /\ dirs' = MetricsDirs(dirs)
    /\ LET wr == WriteEv("plot", PLOT, dirs')
       IN  IF ~wr.ok THEN Raise("FileNotFoundError", <<wr>>) /\ fs' = fs
           ELSE /\ fs' = [fs EXCEPT ![PLOT] = File("png", <<metrics>>)]
                /\ pc' = StageAfter("plot")
                /\ exit_status' = 0
                /\ io' = io \o <<wr, DoneEv("plot")>>
                /\ exc' = exc
    /\ UNCHANGED <<args, invoked, log, dataVars>>

----------------------------------------------------------------------------
(* A run of main() *)

\* the values --evalue takes
CutoffSet == {Num(0), Num(1)}

\* the state before anything ran, but for pc, args, dirs and the input files
Blank ==
    /\ io = <<>>
    /\ invoked = <<>>
    /\ log = <<>>
    /\ exc = "none"
    /\ exit_status = -1
    /\ positives = <<>>
    /\ others = <<>>
    /\ negatives = <<>>
    /\ pos_ids = {}
    /\ neg_ids = {}
    /\ order = [pos |-> <<>>, neg |-> <<>>]
    /\ y_true = <<>>
    /\ y_pred = <<>>
    /\ metrics = <<>>

Init ==
    /\ pc = "start"
    /\ \E db \in SeqsUpTo(RecordSet, MaxRecs) :
         fs = [p \in Paths |-> IF p = SWISSPROT THEN File("fasta", db) ELSE NoFile]
    /\ args \in [evalue : CutoffSet, n_neg : 0..MaxNeg]
    /\ dirs \in {{}, {"outdir"}}
    /\ hits = {}
    /\ Blank

Next ==
    \/ MainSetup
    \/ SelectHumanKunitz
    \/ BuildMsa
    \/ ConvertToStockholm
    \/ BuildHmm
    \/ CreateValidationSets
    \/ RunHmmsearch
    \/ ParseStage
    \/ EvaluateLabels
    \/ EvaluateMetrics
    \/ PlotMetrics

Spec == Init /\ [][Next]_vars

----------------------------------------------------------------------------
(* parse_tblout on any table *)

Dash == <<"-">>

\* E-value fields: 1, 2, 10, -1, nan, and two that are no float literal
FieldSet == {<<"1">>, <<"2">>, <<"1", "0">>, <<"-", "1">>, <<"n", "a", "n">>, <<"1", "e">>, <<"x">>}

\* lines: well-formed ones (5 and 6 fields), short ones, an empty one, a comment, and
\* a line whose first field starts with # behind leading whitespace
LineSet ==
    {Line(FALSE, <<<<"a">>, Dash, Dash, Dash, ev>>) : ev \in FieldSet}
    \cup {Line(FALSE, <<<<"b">>, Dash, Dash, Dash, ev, <<"9">>>>) : ev \in {<<"1">>, <<"2">>}}
    \cup {Line(lead, <<<<"#", "c">>, Dash, Dash, Dash, <<"1">>>>) : lead \in BOOLEAN}
    \cup {Line(FALSE, <<<<"d">>, Dash, Dash, <<"1">>>>), Line(TRUE, <<<<"d">>>>), Line(FALSE, <<>>)}

ParseCutoffSet == {Num(0), Num(1), Num(2), NaN}

InitParse ==
    /\ pc = "parse"
    /\ \E lines \in SeqsUpTo(LineSet, MaxLines) :
         fs = [p \in Paths |-> IF p = TBL THEN File("tbl", lines) ELSE NoFile]
    /\ args \in [evalue : ParseCutoffSet, n_neg : {0}]
    /\ dirs = {"outdir", "outdir/validation"}
    /\ hits = {}
    /\ Blank

NextParse == ParseStage

SpecParse == InitParse /\ [][NextParse]_vars

----------------------------------------------------------------------------
(* create_validation_sets on any input file *)

InitValidation ==
    /\ pc = "validation"
    /\ \E db \in SeqsUpTo(RecordSet, MaxRecs) :
         fs = [p \in Paths |-> IF p = SWISSPROT THEN File("fasta", db) ELSE NoFile]
    /\ args \in [evalue : {Num(1)}, n_neg : 0..MaxNeg]
    /\ dirs \in {{"outdir"}, {"outdir", "outdir/train", "outdir/validation"}}
    /\ hits = {}
    /\ Blank

NextValidation == CreateValidationSets

SpecValidation == InitValidation /\ [][NextValidation]_vars

----------------------------------------------------------------------------
(* evaluate on any hit set and any pair of FASTA files with a record between them *)

EvalIds == {<<"a">>, <<"b">>, <<"c">>}

EvalRecordSet == {[id |-> i, desc |-> <<"Trypsin">>] : i \in EvalIds}

InitEval ==
    /\ pc = "evaluate"
    /\ \E pf, nf \in SeqsUpTo(EvalRecordSet, MaxEvalRecs) :
         /\ Len(pf) + Len(nf) > 0
         /\ fs = [p \in Paths |-> IF p = POS_FA THEN File("fasta", pf)
                                  ELSE IF p = NEG_FA THEN File("fasta", nf) ELSE NoFile]
    /\ args \in [evalue : {Num(1)}, n_neg : {0}]
    /\ dirs = {"outdir", "outdir/validation"}
    /\ hits \in SUBSET (EvalIds \cup {<<"z">>})
    /\ Blank

NextEval ==
    \/ EvaluateLabels
    \/ EvaluateMetrics
    \/ PlotMetrics

SpecEval == InitEval /\ [][NextEval]_vars

----------------------------------------------------------------------------
(* the metric calls on label vectors of up to MaxLabels positives and negatives: *)
(* evaluate at line 148, its sets iterated in ascending order                    *)

PosId(i) == <<"p", DigitChars[i + 1]>>

NegId(i) == <<"n", DigitChars[i + 1]>>

InitMetrics ==
    /\ pc = "metrics"
    /\ \E np, nn \in 0..MaxLabels :
         /\ np + nn > 0
         /\ pos_ids = {PosId(i) : i \in 1..np}
         /\ neg_ids = {NegId(i) : i \in 1..nn}
         /\ order = [pos |-> [i \in 1..np |-> PosId(i)], neg |-> [i \in 1..nn |-> NegId(i)]]
         /\ fs = [p \in Paths |->
                    IF p = POS_FA
                    THEN File("fasta", [i \in 1..np |-> [id |-> PosId(i), desc |-> <<"Kunitz">>]])
                    ELSE IF p = NEG_FA
                    THEN File("fasta", [i \in 1..nn |-> [id |-> NegId(i), desc |-> <<"Trypsin">>]])
                    ELSE NoFile]
         /\ y_true = YTrue(np, nn)
         /\ \E h \in SUBSET (pos_ids \cup neg_ids) :
              /\ hits = h
              /\ y_pred = YPred(order.pos, order.neg, h)
    /\ args \in [evalue : {Num(1)}, n_neg : {0}]
    /\ dirs = {"outdir", "outdir/validation"}
    /\ io = <<>>
    /\ invoked = <<>>
    /\ log = <<>>
    /\ exc = "none"
    /\ exit_status = -1
    /\ positives = <<>>
    /\ others = <<>>
    /\ negatives = <<>>
    /\ metrics = <<>>

NextMetrics ==
    \/ EvaluateMetrics
    \/ PlotMetrics

SpecMetrics == InitMetrics /\ [][NextMetrics]_vars

----------------------------------------------------------------------------
(* Properties of parse_tblout (SpecParse) *)

Table == fs[TBL].data

\* the line is a data line of five fields or more whose fifth is a number <= cutoff
Qualifies(line, cutoff) ==
    /\ ~StartsWithHash(line)
    /\ Len(line.fields) >= 5
    /\ ~ParseFloat(line.fields[5]).err
    /\ FloatLe(ParseFloat(line.fields[5]), cutoff)

\* C1: parse_tblout returns exactly the first fields of the lines that do not start
\* with '#', have at least five fields and a fifth field that is a number <= the
\* cutoff (inclusive); any other line adds nothing, raises nothing and does not stop
\* the lines after it from being read.
C1_ParseTbloutHits ==
    pc # "parse" =>
        /\ pc = "evaluate"
        /\ exc = "none"
        /\ hits = {Table[i].fields[1] : i \in {j \in DOMAIN Table : Qualifies(Table[j], args.evalue)}}

\* a table whose first line has a fifth field that is no number, and whose second
\* line has an E-value equal to the cutoff and is a hit
C1_Witness ==
    /\ pc = "evaluate"
    /\ Len(Table) = 2
    /\ Len(Table[1].fields) >= 5
    /\ ParseFloat(Table[1].fields[5]).err
    /\ Qualifies(Table[2], args.evalue)
    /\ ParseFloat(Table[2].fields[5]).val = args.evalue.val
    /\ hits = {Table[2].fields[1]}

\* C7: for cutoffs c1 <= c2 the hits for c1 are among the hits for c2, so the hit
\* set never grows as the cutoff decreases.
C7_CutoffMonotone ==
    pc = "evaluate" =>
        \A c \in ParseCutoffSet :
            FloatLe(c, args.evalue) =>
                /\ ParseTblout(Table, c) \subseteq hits
                /\ Cardinality(ParseTblout(Table, c)) <= Cardinality(hits)

\* a smaller cutoff that keeps some hits and loses others
C7_Witness ==
    /\ pc = "evaluate"
    /\ \E c \in ParseCutoffSet :
         /\ FloatLe(c, args.evalue)
         /\ ParseTblout(Table, c) # {}
         /\ ParseTblout(Table, c) # hits

----------------------------------------------------------------------------
(* Properties of evaluate (SpecEval, SpecMetrics) *)

IdsOf(path) == {fs[path].data[i].id : i \in DOMAIN fs[path].data}

Labelled == pc \in {"metrics", "plot", "done"}

Scored == pc \in {"plot", "done"}

\* C2: y_true and y_pred are as long as there are distinct positive plus distinct
\* negative ids; y_true is 1 for the positives, then 0 for the negatives; y_pred is 1
\* exactly at the positions whose identifier is in the hit set.
C2_LabelVectors ==
    Labelled =>
        LET np == Cardinality(IdsOf(POS_FA))
            nn == Cardinality(IdsOf(NEG_FA))
            ids == order.pos \o order.neg
        IN  /\ Len(y_true) = np + nn
            /\ Len(y_pred) = Len(y_true)
            /\ Len(order.pos) = np /\ Range(order.pos) = IdsOf(POS_FA)
            /\ Len(order.neg) = nn /\ Range(order.neg) = IdsOf(NEG_FA)
            /\ \A i \in DOMAIN y_true : y_true[i] = IF i <= np THEN 1 ELSE 0
            /\ \A i \in DOMAIN y_pred :
                 /\ y_pred[i] \in {0, 1}
                 /\ y_pred[i] = 1 <=> ids[i] \in hits

\* positives and negatives, a file that names an id twice, hits and misses
C2_Witness ==
    /\ pc = "metrics"
    /\ Len(fs[POS_FA].data) > Cardinality(pos_ids)
    /\ neg_ids # {}
    /\ 1 \in Range(y_pred)
    /\ 0 \in Range(y_pred)

TP == Cardinality(pos_ids \cap hits)

FN == Cardinality(pos_ids \ hits)

FP == Cardinality(neg_ids \cap hits)

TN == Cardinality(neg_ids \ hits)

\* the metric m is the number n/d
Is(m, n, d) == ~m.nan /\ m.den # 0 /\ d # 0 /\ m.num * d = n * m.den

InUnit(m) == ~m.nan /\ m.den > 0 /\ 0 <= m.num /\ m.num <= m.den

\* C3: precision = TP/(TP+FP), recall = TP/(TP+FN), F1 = 2pr/(p+r) and
\* accuracy = (TP+TN)/total wherever the denominators are not zero; TP=3, FP=1, FN=2,
\* TN=4 give 3/4, 3/5, 2/3 and 7/10; every metric is in [0,1].
C3_Metrics ==
    Scored =>
        /\ TP + FP # 0 => Is(metrics.prec, TP, TP + FP)
        /\ TP + FN # 0 => Is(metrics.rec, TP, TP + FN)
        /\ TP # 0 =>
             \* p = TP/(TP+FP), r = TP/(TP+FN): 2pr = 2 TP TP / ((TP+FP)(TP+FN)),
             \* p + r = TP (2TP+FP+FN) / ((TP+FP)(TP+FN))
             Is(metrics.f1, 2 * TP * TP, TP * (2 * TP + FP + FN))
        /\ TP + FP + FN + TN # 0 => Is(metrics.acc, TP + TN, TP + FP + FN + TN)
        /\ (TP = 3 /\ FP = 1 /\ FN = 2 /\ TN = 4) =>
             /\ Is(metrics.prec, 3, 4)
             /\ Is(metrics.rec, 3, 5)
             /\ Is(metrics.f1, 2, 3)
             /\ Is(metrics.acc, 7, 10)
        /\ InUnit(metrics.prec) /\ InUnit(metrics.rec)
        /\ InUnit(metrics.f1) /\ InUnit(metrics.acc)

\* the confusion matrix of the example, scored
C3_Witness == pc = "plot" /\ TP = 3 /\ FP = 1 /\ FN = 2 /\ TN = 4

\* C8 as stated: a hit set equal to the positive ids and disjoint from the negative
\* ids gives accuracy 1.0 and F1 1.0, for every such pair of sets.
C8_PerfectHits_Original ==
    (Scored /\ hits = pos_ids /\ hits \cap neg_ids = {}) =>
        Is(metrics.acc, 1, 1) /\ Is(metrics.f1, 1, 1)

\* C8, amended: the same, for every such pair whose positive set is not empty (with
\* no positives the hit set is empty, F1 is 0/0 and takes the value 0.0).
C8_PerfectHits ==
    (Scored /\ hits = pos_ids /\ hits \cap neg_ids = {} /\ pos_ids # {}) =>
        Is(metrics.acc, 1, 1) /\ Is(metrics.f1, 1, 1)

C8_Witness ==
    /\ pc = "plot"
    /\ hits = pos_ids
    /\ Cardinality(pos_ids) = 2
    /\ neg_ids # {}
    /\ Is(metrics.f1, 1, 1)

\* C9: with an empty hit set evaluate raises nothing, recall is 0.0, and precision
\* (denominator TP+FP = 0) and F1 are 0.0, whatever the positive and negative ids.
C9_EmptyHits ==
    hits = {} =>
        /\ exc = "none"
        /\ pc # "raised"
        /\ Scored =>
             /\ Is(metrics.rec, 0, 1)
             /\ Is(metrics.prec, 0, 1)
             /\ Is(metrics.f1, 0, 1)

C9_Witness ==
    /\ pc = "done"
    /\ hits = {}
    /\ pos_ids # {}
    /\ neg_ids # {}
    /\ Is(metrics.prec, 0, 1)

----------------------------------------------------------------------------
(* Properties of create_validation_sets (SpecValidation) *)

Db == fs[SWISSPROT].data

HasWord(r, words) == \E i \in DOMAIN r.desc : r.desc[i] \in words

KeywordWords == {"kunitz", "Kunitz", "KUNITZ"}

OrganismWords == {"homo sapiens", "Homo sapiens", "HOMO SAPIENS"}

\* positions of the input records: keyword and not the organism; no keyword
PositivePositions == {i \in DOMAIN Db : HasWord(Db[i], KeywordWords) /\ ~HasWord(Db[i], OrganismWords)}

PoolPositions == {i \in DOMAIN Db : ~HasWord(Db[i], KeywordWords)}

Objs(recs) == {recs[i].obj : i \in DOMAIN recs}

\* C5: positives are all records with the keyword and without the organism; negatives
\* are exactly min(n, pool size) records of the no-keyword pool, none drawn twice; the
\* test set is the positives followed by the negatives; positives and negatives share
\* no record; a pool smaller than n is used whole, without an error.
C5_ValidationSets ==
    pc # "validation" =>
        /\ pc = "search"
        /\ exc = "none"
        /\ Objs(positives) = PositivePositions
        /\ Len(positives) = Cardinality(PositivePositions)
        /\ Len(negatives) = Min(args.n_neg, Cardinality(PoolPositions))
        /\ Objs(negatives) \subseteq PoolPositions
        /\ Cardinality(Objs(negatives)) = Len(negatives)
        /\ Objs(positives) \cap Objs(negatives) = {}
        /\ Cardinality(PoolPositions) < args.n_neg => Objs(negatives) = PoolPositions
        /\ fs[POS_FA].data = [i \in DOMAIN positives |-> Db[positives[i].obj]]
        /\ fs[NEG_FA].data = [i \in DOMAIN negatives |-> Db[negatives[i].obj]]
        /\ fs[TEST_FA].data = fs[POS_FA].data \o fs[NEG_FA].data

\* a pool smaller than the count asked for, used whole, beside a positive
C5_Witness ==
    /\ pc = "search"
    /\ Cardinality(PoolPositions) = 1
    /\ args.n_neg = 2
    /\ Len(negatives) = 1
    /\ Len(positives) = 1
    /\ Len(fs[TEST_FA].data) = 2

----------------------------------------------------------------------------
(* Properties of a run of main() (Spec) *)

TrainingPositions == {i \in DOMAIN Db : HasWord(Db[i], KeywordWords) /\ HasWord(Db[i], OrganismWords)}

RECURSIVE Pick(_, _, _)
\* the records of db at the positions of S, in input order
Pick(db, S, i) ==
    IF i > Len(db) THEN <<>>
    ELSE (IF i \in S THEN <<db[i]>> ELSE <<>>) \o Pick(db, S, i + 1)

\* C6: with no record matching both 'kunitz' and 'homo sapiens', select_human_kunitz
\* fails with a data error and the run stops: no training file, no external tool;
\* otherwise the training file holds exactly the matching records, in input order.
C6_SelectTraining ==
    /\ TrainingPositions = {} =>
         /\ ~Exists(TRAIN_FA)
         /\ invoked = <<>>
         /\ pc \in {"start", "select", "raised"}
         /\ pc = "raised" => (exc = "RuntimeError" /\ exit_status = 1)
    /\ (TrainingPositions # {} /\ pc \notin {"start", "select"}) =>
         /\ Exists(TRAIN_FA)
         /\ fs[TRAIN_FA].data = Pick(Db, TrainingPositions, 1)

\* records in the input, none of them a human Kunitz: the run has stopped
C6_Witness ==
    /\ pc = "raised"
    /\ exc = "RuntimeError"
    /\ Len(Db) = 2
    /\ HasWord(Db[1], KeywordWords)
    /\ HasWord(Db[2], OrganismWords)

\* two human Kunitz records among others: the training file is written
C6_WitnessWritten ==
    /\ pc = "align"
    /\ Len(Db) = 3
    /\ Cardinality(TrainingPositions) = 2

ToolOf(stage) ==
    CASE stage = "align" -> "clustalo"
      [] stage = "build" -> "hmmbuild"
      [] stage = "search" -> "hmmsearch"

\* C4: when a tool run through run_command exits non-zero, the failure is logged and
\* the process ends at once with status 1: no retry, no later stage.
C4_ToolFailureStops ==
    \A k \in DOMAIN io :
        io[k].op = "failed" =>
            /\ k = Len(io)
            /\ pc = "exit1"
            /\ exit_status = 1
            /\ Len(log) = 1
            /\ invoked[Len(invoked)] = ToolOf(io[k].stage)
            /\ Cardinality({j \in DOMAIN invoked : invoked[j] = ToolOf(io[k].stage)}) = 1
            /\ \A j \in DOMAIN io : io[j].op = "done" => j < k
            /\ ~Exists(PLOT)

\* hmmsearch fails after clustalo and hmmbuild succeeded
C4_Witness ==
    /\ pc = "exit1"
    /\ invoked = <<"clustalo", "hmmbuild", "hmmsearch">>
    /\ log = <<"hmmsearch">>
    /\ Exists(TEST_FA)

StageOrder ==
    <<"start", "select", "align", "convert", "build", "validation", "search", "parse",
      "evaluate", "plot">>

\* how many stages completed before the k-th entry of the history
NDone(k) == Cardinality({j \in 1..(k - 1) : io[j].op = "done"})

====
